---- MODULE Spec2Model ----
(***************************************************************************)
(* A model of charvel_db's storage layer (src/pkg/sql/sql.go): the row     *)
(* codec, the Pager (page cache over one backing file), the Table (row     *)
(* count and address translation), the Cursor, and the Engine that         *)
(* prepares and executes commands on one Table.                            *)
(*                                                                         *)
(* Geometry.  The source fixes usernameSize = 32, emailSize = 255,         *)
(* pageConstraintSize = 4096 and tableMaxPages = 100.  The model keeps the *)
(* formulas that derive rowSize, rowsPerPage, actualPageSize and           *)
(* tableMaxRows from them and scales these four numbers down, so that a    *)
(* page holds two rows with some bytes of the page budget left unused, as  *)
(* in the source (4096 = 14 * 291 + 22).  idSize keeps its value.          *)
(*                                                                         *)
(* A Go run-time panic (an index out of range) ends the process: the model *)
(* records it as status = "panicked"; the file keeps what was written to   *)
(* it before, and the program can be started again on it.                  *)
(***************************************************************************)
EXTENDS Integers, Sequences, FiniteSets, TLC

\* ------------------------------------------------------------ constants
idSize == 4
usernameSize == 1
emailSize == 2
rowSize == idSize + usernameSize + emailSize
pageConstraintSize == 15
tableMaxPages == 2
rowsPerPage == pageConstraintSize \div rowSize
actualPageSize == rowsPerPage * rowSize
tableMaxRows == rowsPerPage * tableMaxPages

\* ------------------------------------------------------------ bounds
\* Table sessions (NewTable calls) per run.
MaxSessions == 3
\* Whole rows in the file the first session finds (with or without one byte
\* of a further row after them).
MaxInitRows == 1
\* Largest position a Cursor is advanced to is tableMaxRows + MaxCursorOver.
MaxCursorOver == 1
\* When the Pager is used directly: Pager lifetimes (NewPager calls) per run,
\* and Pager.Write plus Pager.Flush calls per run.
MaxLifetimes == 2
MaxMutations == 3

Min(a, b) == IF a < b THEN a ELSE b
Max(a, b) == IF a > b THEN a ELSE b

Pages == 0 .. (tableMaxPages - 1)
Zeros(n) == [i \in 1 .. n |-> 0]

\* ------------------------------------------------------------ row codec
RECURSIVE Pow(_, _)
Pow(b, e) == IF e = 0 THEN 1 ELSE b * Pow(b, e - 1)

\* The largest int32, 2^(8 * idSize - 1) - 1, written so that no intermediate
\* value leaves the 32-bit range TLC computes in.
MaxInt32 == 127 * Pow(256, idSize - 1) + (Pow(256, idSize - 1) - 1)

\* binary.Write(rowBuffer, binary.BigEndian, r.ID): idSize bytes, two's
\* complement: a negative id is id + 2^31 with the top bit set.
BigEndian(id) ==
    LET low == IF id < 0 THEN (id + MaxInt32) + 1 ELSE id
        top == IF id < 0 THEN 128 ELSE 0
    IN  [k \in 1 .. idSize |->
            IF k = 1 THEN top + low \div Pow(256, idSize - 1)
            ELSE (low \div Pow(256, idSize - k)) % 256]

\* binary.Read(rowBuffer, binary.BigEndian, &rowID) into an int32
FromBigEndian(bs) ==
    LET RECURSIVE Acc(_)
        Acc(k) == IF k = 1 THEN bs[1] % 128 ELSE Acc(k - 1) * 256 + bs[k]
        low == Acc(idSize)
    IN  IF bs[1] >= 128 THEN (low - MaxInt32) - 1 ELSE low

\* One step of Go's `for i, char := range text`, at the byte text[i]: the
\* rune decoded from the UTF-8 sequence that starts there and the bytes it
\* takes; a byte that starts no well-formed sequence yields U+FFFD, width 1.
DecodeRune(text, i) ==
    LET b == text[i]
        Cont(k) == i + k <= Len(text) /\ text[i + k] \in 128 .. 191
        Low(k) == text[i + k] - 128
    IN  IF b < 128 THEN [char |-> b, width |-> 1]
        ELSE IF b \in 194 .. 223 /\ Cont(1)
        THEN [char |-> (b - 192) * 64 + Low(1), width |-> 2]
        ELSE IF /\ b \in 224 .. 239 /\ Cont(1) /\ Cont(2)
                /\ (b = 224 => text[i + 1] >= 160)
                /\ (b = 237 => text[i + 1] <= 159)
        THEN [char |-> ((b - 224) * 64 + Low(1)) * 64 + Low(2), width |-> 3]
        ELSE IF /\ b \in 240 .. 244 /\ Cont(1) /\ Cont(2) /\ Cont(3)
                /\ (b = 240 => text[i + 1] >= 144)
                /\ (b = 244 => text[i + 1] <= 143)
        THEN [char |-> (((b - 240) * 64 + Low(1)) * 64 + Low(2)) * 64 + Low(3),
              width |-> 4]
        ELSE [char |-> 65533, width |-> 1]

\* The (index, rune) pairs `range text` yields from byte i on; `at` is the
\* pair's Go index (0-based).
RECURSIVE RangeOver(_, _)
RangeOver(text, i) ==
    IF i > Len(text) THEN {}
    ELSE LET d == DecodeRune(text, i)
         IN  {[at |-> i - 1, char |-> d.char]} \cup RangeOver(text, i + d.width)

\* NewRow's loops: `for i, char := range text { if i >= size { break };
\* field[i] = byte(char) }`: the field's byte at every index below size where
\* a rune starts is that rune's low byte, every other byte stays zero.  For
\* an ASCII text these are the text's first `size` bytes.
FixedField(text, size) ==
    [k \in 1 .. size |->
        LET hit == {x \in RangeOver(text, 1) : x.at = k - 1}
        IN  IF hit = {} THEN 0 ELSE (CHOOSE x \in hit : TRUE).char % 256]

NewRow(id, name, email) ==
    [ID |-> id, Username |-> FixedField(name, usernameSize),
     Email |-> FixedField(email, emailSize)]

Serialize(r) == BigEndian(r.ID) \o r.Username \o r.Email

DeserializeRow(rowBytes) ==
    [ID |-> FromBigEndian(SubSeq(rowBytes, 1, idSize)),
     Username |-> SubSeq(rowBytes, idSize + 1, idSize + usernameSize),
     Email |-> SubSeq(rowBytes, idSize + usernameSize + 1, rowSize)]

\* ------------------------------------------------------------ addresses
\* Go's integer / and %: the quotient is truncated toward zero and the
\* remainder takes the dividend's sign (b > 0 here).
Quot(a, b) == IF a >= 0 THEN a \div b ELSE -((-a) \div b)
Rem(a, b) == a - b * Quot(a, b)

\* Mutant: the byte offset is computed from the page number.
FetchAddressOffsetFromPage(rowNum) ==
    [PageNum |-> Quot(rowNum, rowsPerPage),
     ByteOffset |-> Quot(rowNum, rowsPerPage) * rowSize]

\* Mutant: the byte offset is the row's place in the page, not multiplied by
\* the row's width.
FetchAddressRowsAsBytes(rowNum) ==
    [PageNum |-> Quot(rowNum, rowsPerPage),
     ByteOffset |-> Rem(rowNum, rowsPerPage)]

FetchAddress(rowNum) ==
    [PageNum |-> Quot(rowNum, rowsPerPage),
     ByteOffset |-> Rem(rowNum, rowsPerPage) * rowSize]

\* Mutant: the next row is addressed at the last row's slot.
NextRowAddressOffByOne(n) == FetchAddress(n - 1)

\* Table.NextRowAddress, for a table of n rows.
NextRowAddress(n) == FetchAddress(n)

\* ------------------------------------------------------------ pager, as functions
\* NewPager: pageCache zeroed, cacheIndex empty.
EmptyCache == [p \in Pages |-> Zeros(actualPageSize)]

\* Mutant: the page is sought at pageNum * pageConstraintSize.
cachePageAtBudget(cache, f, pageNum) ==
    [cache EXCEPT ![pageNum] =
        [i \in 1 .. actualPageSize |->
            IF pageNum * pageConstraintSize + i <= Len(f)
            THEN f[pageNum * pageConstraintSize + i] ELSE 0]]

\* Mutant: only the page's first row is read from the file.
cachePageFirstRow(cache, f, pageNum) ==
    [cache EXCEPT ![pageNum] =
        [i \in 1 .. actualPageSize |->
            IF i <= rowSize /\ pageNum * actualPageSize + i <= Len(f)
            THEN f[pageNum * actualPageSize + i] ELSE 0]]

\* cachePage: Seek(pageNum * actualPageSize), Read into a fresh zeroed buffer of
\* actualPageSize bytes (a short read and io.EOF are not errors), copy the whole
\* buffer into the slot.
cachePage(cache, f, pageNum) ==
    [cache EXCEPT ![pageNum] =
        [i \in 1 .. actualPageSize |->
            IF pageNum * actualPageSize + i <= Len(f)
            THEN f[pageNum * actualPageSize + i] ELSE 0]]

\* Mutant: every reference loads the page again.
MustLoadAlways(index, pageNum) == TRUE

\* checkPage: the slot is loaded only when cacheIndex has no true entry for it.
MustLoad(index, pageNum) == pageNum \notin index

checkPage(cache, index, f, pageNum) ==
    IF MustLoad(index, pageNum) THEN cachePage(cache, f, pageNum) ELSE cache

\* Mutant: the byte before the row's slot is zeroed.
WriteBytesFromByteBefore(cache, address, rowBytes) ==
    [cache EXCEPT ![address.PageNum] =
        [i \in 1 .. actualPageSize |->
            IF /\ i > address.ByteOffset
               /\ i <= address.ByteOffset + Min(Len(rowBytes), rowSize)
            THEN rowBytes[i - address.ByteOffset]
            ELSE IF i = address.ByteOffset THEN 0 ELSE @[i]]]

\* Pager.Write's loop, after checkPage: at most rowSize bytes copied into the slot.
WriteBytes(cache, address, rowBytes) ==
    [cache EXCEPT ![address.PageNum] =
        [i \in 1 .. actualPageSize |->
            IF /\ i > address.ByteOffset
               /\ i <= address.ByteOffset + Min(Len(rowBytes), rowSize)
            THEN rowBytes[i - address.ByteOffset] ELSE @[i]]]

\* Pager.Read's loop, after checkPage: rowSize bytes of the slot.
ReadBytes(cache, address) ==
    [i \in 1 .. rowSize |-> cache[address.PageNum][address.ByteOffset + i]]

\* Mutant: Pager.Write writes the row through to the file.
FileWrittenThrough(f, cache, address) ==
    LET off == address.PageNum * actualPageSize + address.ByteOffset
    IN  [i \in 1 .. Max(Len(f), off + rowSize) |->
            IF i > off /\ i <= off + rowSize
            THEN cache[address.PageNum][i - address.PageNum * actualPageSize]
            ELSE IF i <= Len(f) THEN f[i] ELSE 0]

\* The file after Pager.Write: the loop stores into pageCache only.
FileAfterWrite(f, cache, address) == f

\* The file after Pager.Close: p.file.Close() and nothing else.
FileAfterClose(f, cache, index) == f

\* Mutant: the page is written at pageIdx * pageConstraintSize.
FlushAtBudget(f, cache, pageIdx, writeSize) ==
    LET off == pageIdx * pageConstraintSize
    IN  IF writeSize = 0 THEN f
        ELSE [i \in 1 .. Max(Len(f), off + writeSize) |->
                IF i > off /\ i <= off + writeSize THEN cache[pageIdx][i - off]
                ELSE IF i <= Len(f) THEN f[i] ELSE 0]

\* Mutant: the whole slot is written, whatever writeSize is.
FlushWholePage(f, cache, pageIdx, writeSize) ==
    LET off == pageIdx * actualPageSize
    IN  [i \in 1 .. Max(Len(f), off + actualPageSize) |->
            IF i > off /\ i <= off + actualPageSize THEN cache[pageIdx][i - off]
            ELSE IF i <= Len(f) THEN f[i] ELSE 0]

\* Pager.Flush: Seek(pageIdx * actualPageSize), Write(slot[0:writeSize]).  The
\* file is never truncated; a write past the end leaves a zero-filled gap; a
\* write of no bytes changes nothing.
Flush(f, cache, pageIdx, writeSize) ==
    LET off == pageIdx * actualPageSize
    IN  IF writeSize = 0 THEN f
        ELSE [i \in 1 .. Max(Len(f), off + writeSize) |->
                IF i > off /\ i <= off + writeSize THEN cache[pageIdx][i - off]
                ELSE IF i <= Len(f) THEN f[i] ELSE 0]

\* ------------------------------------------------------------ table, as functions
\* Mutant: a partial row at the end of the file is counted as a row.
RowCountOfRoundedUp(f) == (Len(f) + rowSize - 1) \div rowSize

\* NewTable: rowCount := pager.fileReadSize / rowSize
RowCountOf(f) == Len(f) \div rowSize

\* Table.Close's loop: Flush(i, actualPageSize) for i = from .. pageCount - 1;
\* a page index >= tableMaxPages panics, and the loop stops there.
RECURSIVE FlushFullPages(_, _, _, _)
FlushFullPages(f, cache, from, pageCount) ==
    IF from >= pageCount \/ from >= tableMaxPages THEN f
    ELSE FlushFullPages(Flush(f, cache, from, actualPageSize), cache, from + 1, pageCount)

ClosePageCount(n) == n \div rowsPerPage

\* Mutant: the last page is not flushed.
CloseExtraBytesNone(n) == 0

\* Mutant: the last page is flushed whole.
CloseExtraBytesWholePage(n) == actualPageSize

CloseExtraBytes(n) == (n % rowsPerPage) * rowSize

\* Whether Table.Close indexes pageCache out of range (in the loop or in the
\* last, partial flush, which is issued for every row count).
ClosePanics(n) == ClosePageCount(n) >= tableMaxPages

\* The file after Table.Close's flushes (all of them, or those before the panic).
CloseFile(f, cache, n) ==
    LET full == FlushFullPages(f, cache, 0, ClosePageCount(n))
    IN  IF ClosePanics(n) THEN full
        ELSE Flush(full, cache, ClosePageCount(n), CloseExtraBytes(n))

\* ------------------------------------------------------------ state
VARIABLES
    file,        \* the backing file's bytes (os.File content), 1-indexed
    pageCache,   \* Pager.pageCache: page index -> actualPageSize bytes
    cacheIndex,  \* Pager.cacheIndex: the page indices mapped to true
    numRows,     \* Table.numRows
    status,      \* "down" (never started), "open", "closed", "panicked"
    session,     \* how many times NewTable / NewPager has run
    hasCursor,   \* whether a Cursor on the current Table exists
    rowIndex,    \* Cursor.rowIndex
    op,          \* the operation that produced this state
    arg,         \* its integer argument (a row number, a page index; for
                 \* ToString the row count it prints), or -1
    res,         \* its outcome: "ok", "error", "panic", "true", "false" or ""
    fetched,     \* the rows the operation returned (FetchRow: one; ToString: all)
    addr,        \* the address the operation returned or used
    log,         \* history: the rows the table is meant to hold, by row number
    openRows,    \* history: numRows when the session was opened
    openLen,     \* history: the file's length when the session was opened
    initLen,     \* history: the file's length before the first session
    closeRows,   \* history: numRows when Table.Close was last called, or -1
    loads,       \* history: page index -> cachePage calls in this Pager's lifetime
    ops,         \* history: Pager.Write and Pager.Flush calls made on the Pager directly
    rt,          \* history: the last Pager.Write (addr, bytes) and how far it got:
                 \* 1 written, 2 flushed (its page, covering its row), 3 closed
                 \* after that, 4 reopened after that; 5 closed with no such
                 \* flush, 6 reopened after that; 0 none
    stmt,        \* the Statement Engine.Prepare returned last, with its error
    iter,        \* history: the Advance calls made on a Cursor created in
                 \* iterator mode, with no Append since; -1 without such a Cursor
    given        \* the operation's further arguments (Flush: the byte count;
                 \* the codec: id, name, email), or <<>>

vars == <<file, pageCache, cacheIndex, numRows, status, session, hasCursor,
          rowIndex, op, arg, res, fetched, addr, log, openRows, openLen,
          initLen, closeRows, loads, ops, rt, stmt, iter, given>>

NoAddr == [PageNum |-> -1, ByteOffset |-> -1]
NoRt == [stage |-> 0, addr |-> NoAddr, bytes |-> <<>>]
NoStmt == [raw |-> <<>>, rowToInsert |-> <<>>, err |-> FALSE]

\* The rows Table.Append is given: two rows that differ in every field.
NameA == <<97, 110>>
NameB == <<98>>
Rows == {NewRow(1, NameA, NameB), NewRow(-2, NameB, NameA)}

\* The files the first session may find: n bytes, not written by this program.
InitLens == {r * rowSize + x : r \in 0 .. MaxInitRows, x \in {0, 1}}
InitFiles == {[i \in 1 .. n |-> 9] : n \in InitLens}

\* The whole rows of a file, decoded.
RowsOfFile(f) ==
    [i \in 1 .. (Len(f) \div rowSize) |->
        DeserializeRow(SubSeq(f, (i - 1) * rowSize + 1, i * rowSize))]

\* The state before the program runs, on one of `files`, with `inputs` the
\* arguments a codec call will be given.
Start(files, inputs) ==
    /\ file \in files
    /\ pageCache = EmptyCache
    /\ cacheIndex = {}
    /\ numRows = 0
    /\ status = "down"
    /\ session = 0
    /\ hasCursor = FALSE
    /\ rowIndex = 0
    /\ op = "init"
    /\ arg = -1
    /\ res = ""
    /\ fetched = <<>>
    /\ addr = NoAddr
    /\ log = <<>>
    /\ openRows = 0
    /\ openLen = 0
    /\ initLen = Len(file)
    /\ closeRows = -1
    /\ loads = [p \in Pages |-> 0]
    /\ ops = 0
    /\ rt = NoRt
    /\ stmt = NoStmt
    /\ iter = -1
    /\ given \in inputs

Init == Start(InitFiles, {<<>>})

\* What an operation reports; every operation sets all six.
ReportGiven(o, a, r, rows, ad, g) ==
    /\ op' = o
    /\ arg' = a
    /\ res' = r
    /\ fetched' = rows
    /\ addr' = ad
    /\ given' = g

Report(o, a, r, rows, ad) == ReportGiven(o, a, r, rows, ad, <<>>)

\* checkPage's effect on cacheIndex and on the count of loads.
Touch(pageNum) ==
    /\ cacheIndex' = cacheIndex \cup {pageNum}
    /\ loads' = IF MustLoad(cacheIndex, pageNum)
                THEN [loads EXCEPT ![pageNum] = @ + 1] ELSE loads

\* ------------------------------------------------------------ table operations
\* NewTable (and NewPager inside it): a fresh Pager on the file as it is.
NewTable ==
    /\ status \in {"down", "closed", "panicked"}
    /\ session < MaxSessions
    /\ pageCache' = EmptyCache
    /\ cacheIndex' = {}
    /\ loads' = [p \in Pages |-> 0]
    /\ numRows' = RowCountOf(file)
    /\ status' = "open"
    /\ session' = session + 1
    /\ hasCursor' = FALSE
    /\ rowIndex' = 0
    /\ log' = IF status = "down" THEN RowsOfFile(file) ELSE log
    /\ openRows' = RowCountOf(file)
    /\ openLen' = Len(file)
    /\ stmt' = NoStmt
    /\ iter' = -1
    /\ Report("open", -1, "ok", <<>>, NoAddr)
    /\ UNCHANGED <<file, closeRows, initLen, ops, rt>>

\* Table.Append: NextRowAddress, Serialize, Pager.Write, numRows + 1.  It has
\* no capacity check: at numRows = tableMaxRows the address names page
\* tableMaxPages and cachePage panics on its first store into the slot.
AppendRow(o, row) ==
    /\ status = "open"
    /\ LET address == NextRowAddress(numRows)
       IN  IF address.PageNum \in Pages
           THEN /\ pageCache' = WriteBytes(
                        checkPage(pageCache, cacheIndex, file, address.PageNum),
                        address, Serialize(row))
                /\ Touch(address.PageNum)
                /\ file' = FileAfterWrite(file, pageCache', address)
                /\ numRows' = numRows + 1
                /\ log' = Append(log, row)
                /\ Report(o, numRows, "ok", <<>>, address)
                /\ UNCHANGED status
           ELSE /\ status' = "panicked"
                /\ log' = SubSeq(log, 1, openRows)
                /\ Report(o, numRows, "panic", <<>>, address)
                /\ UNCHANGED <<file, pageCache, cacheIndex, loads, numRows>>
    /\ iter' = -1
    /\ UNCHANGED <<session, hasCursor, rowIndex, openRows, openLen,
                   closeRows, initLen, ops, rt>>

TableAppend(row) == AppendRow("append", row) /\ UNCHANGED stmt

\* Table.FetchRow(t.FetchAddress(rowNum)): Pager.Read, then DeserializeRow.
FetchRow(rowNum) ==
    /\ status = "open"
    /\ LET address == FetchAddress(rowNum)
           cache == checkPage(pageCache, cacheIndex, file, address.PageNum)
       IN  /\ pageCache' = cache
           /\ Touch(address.PageNum)
           /\ Report("fetch", rowNum, "ok",
                     <<DeserializeRow(ReadBytes(cache, address))>>, address)
    /\ UNCHANGED <<file, numRows, status, session, hasCursor, rowIndex, log,
                   openRows, openLen, closeRows, initLen, ops, rt, stmt, iter>>

\* Table.FetchAddress called on its own.
AddressOf(rowNum) ==
    /\ status = "open"
    /\ Report("address", rowNum, "ok", <<>>, FetchAddress(rowNum))
    /\ UNCHANGED <<file, pageCache, cacheIndex, numRows, status, session,
                   hasCursor, rowIndex, log, openRows, openLen, closeRows,
                   initLen, loads, ops, rt, stmt, iter>>

\* Mutant: the loop starts at row number 1.
ScanRowsSkipFirst(n) == [i \in 1 .. (n - 1) |-> i]

\* Table.ToString's loop: the row numbers it fetches, in order: 0, 1, ... until
\* `rowNum >= t.numRows` breaks it.
ScanRows(n) == [i \in 1 .. n |-> i - 1]

\* Each page the rows lie in goes through checkPage.
ScanPages == {FetchAddress(ScanRows(numRows)[k]).PageNum :
                k \in DOMAIN ScanRows(numRows)}

\* Table.ToString: FetchRow of every row number of the loop, reported as
\* operation o.
ScanTable(o) ==
    /\ status = "open"
    /\ numRows <= tableMaxRows
    /\ LET cache == [p \in Pages |->
                        IF p \in ScanPages
                        THEN checkPage(pageCache, cacheIndex, file, p)[p]
                        ELSE pageCache[p]]
       IN  /\ pageCache' = cache
           /\ cacheIndex' = cacheIndex \cup ScanPages
           /\ loads' = [p \in Pages |->
                           IF p \in ScanPages /\ MustLoad(cacheIndex, p)
                           THEN loads[p] + 1 ELSE loads[p]]
           /\ Report(o, numRows, "ok",
                     [k \in DOMAIN ScanRows(numRows) |->
                         DeserializeRow(ReadBytes(cache,
                             FetchAddress(ScanRows(numRows)[k])))],
                     NoAddr)
    /\ UNCHANGED <<file, numRows, status, session, hasCursor, rowIndex, log,
                   openRows, openLen, closeRows, initLen, ops, rt, iter>>

TableToString == ScanTable("scan") /\ UNCHANGED stmt

\* ------------------------------------------------------------ cursor operations
\* Mutant: the position numRows is still inside the table.
BeyondTableOffByOne(idx, rows) == idx > rows \/ idx < 0

\* Mutant: a position below 0 is not beyond the table.
BeyondTableIgnoresNegative(idx, rows) == idx >= rows

BeyondTable(idx, rows) == idx >= rows \/ idx < 0

BoolRes(b) == IF b THEN "true" ELSE "false"

CursorFrame ==
    UNCHANGED <<file, pageCache, cacheIndex, numRows, status, session, log,
                openRows, openLen, closeRows, initLen, loads, ops, rt, stmt>>

\* Mutant: an iterator-mode Cursor starts on the first row.
CursorStartIteratorAtZero(mode) ==
    IF mode = "end" THEN numRows - 1 ELSE 0

\* NewCursor(t, mode); any other mode leaves rowIndex at Go's zero value.
CursorStart(mode) ==
    IF mode = "start" THEN 0
    ELSE IF mode = "iterator" THEN -1
    ELSE IF mode = "end" THEN numRows - 1
    ELSE 0

NewCursor(mode) ==
    /\ status = "open"
    /\ hasCursor' = TRUE
    /\ rowIndex' = CursorStart(mode)
    /\ iter' = IF mode = "iterator" THEN 0 ELSE -1
    /\ Report("cursor", -1, "ok", <<>>, NoAddr)
    /\ CursorFrame

\* Cursor.Advance: rowIndex++, return !BeyondTable().
Advance ==
    /\ status = "open"
    /\ hasCursor
    /\ rowIndex < tableMaxRows + MaxCursorOver
    /\ rowIndex' = rowIndex + 1
    /\ iter' = IF iter >= 0 THEN iter + 1 ELSE -1
    /\ Report("advance", rowIndex, BoolRes(~BeyondTable(rowIndex + 1, numRows)),
              <<>>, NoAddr)
    /\ UNCHANGED hasCursor
    /\ CursorFrame

\* Cursor.BeyondTable called on its own.
IsBeyondTable ==
    /\ status = "open"
    /\ hasCursor
    /\ Report("beyond", rowIndex, BoolRes(BeyondTable(rowIndex, numRows)),
              <<>>, NoAddr)
    /\ UNCHANGED <<hasCursor, rowIndex, iter>>
    /\ CursorFrame

\* Cursor.GetAddress.
GetAddress ==
    /\ status = "open"
    /\ hasCursor
    /\ Report("getaddress", rowIndex, "ok", <<>>, FetchAddress(rowIndex))
    /\ UNCHANGED <<hasCursor, rowIndex, iter>>
    /\ CursorFrame

\* Table.Close: the flushes, then Pager.Close; a panic ends it before the close.
Close ==
    /\ status = "open"
    /\ file' = IF ClosePanics(numRows)
               THEN CloseFile(file, pageCache, numRows)
               ELSE FileAfterClose(CloseFile(file, pageCache, numRows),
                                   pageCache, cacheIndex)
    /\ status' = IF ClosePanics(numRows) THEN "panicked" ELSE "closed"
    /\ closeRows' = numRows
    /\ hasCursor' = FALSE
    /\ rowIndex' = 0
    /\ iter' = -1
    /\ Report("close", -1, IF ClosePanics(numRows) THEN "panic" ELSE "ok",
              <<>>, NoAddr)
    /\ UNCHANGED <<pageCache, cacheIndex, numRows, session, log, openRows,
                   openLen, initLen, loads, ops, rt, stmt>>

TableNext ==
    \/ NewTable
    \/ \E row \in Rows : TableAppend(row)
    \/ \E rowNum \in 0 .. (tableMaxRows - 1) : FetchRow(rowNum)
    \/ \E rowNum \in 0 .. tableMaxRows : AddressOf(rowNum)
    \/ TableToString
    \/ Close

CursorNext ==
    \/ \E mode \in {"start", "iterator", "end"} : NewCursor(mode)
    \/ Advance
    \/ IsBeyondTable
    \/ GetAddress

\* The Table used through its own operations.
Spec == Init /\ [][TableNext]_vars

\* The Table with a Cursor on it, on a blank file and on the longest initial
\* file.  Table.FetchAddress called on its own is left to Spec: it reads the
\* constants only and assigns nothing.
FullInit == Init /\ Len(file) \in {0, MaxInitRows * rowSize + 1}
FullNext ==
    \/ NewTable
    \/ \E row \in Rows : TableAppend(row)
    \/ \E rowNum \in 0 .. (tableMaxRows - 1) : FetchRow(rowNum)
    \/ TableToString
    \/ Close
    \/ CursorNext
FullSpec == FullInit /\ [][FullNext]_vars

\* ------------------------------------------------------------ pager operations
\* The Pager used directly, as TestPagerFileStore does: addresses inside the
\* slot array at row-aligned offsets, flush sizes at row ends and one byte
\* past them.
PagerOffsets == {o \in 0 .. (actualPageSize - rowSize) : o % rowSize = 0}
PagerAddresses == {[PageNum |-> p, ByteOffset |-> o] : p \in Pages, o \in PagerOffsets}
FlushSizes == {n \in 0 .. actualPageSize : n % rowSize <= 1}

PagerFrame ==
    UNCHANGED <<numRows, hasCursor, rowIndex, log, openRows, openLen, initLen,
                closeRows, stmt, iter>>

\* NewPager: the file opened (created empty if absent), nothing cached.
NewPager ==
    /\ status \in {"down", "closed"}
    /\ session < MaxLifetimes
    /\ pageCache' = EmptyCache
    /\ cacheIndex' = {}
    /\ loads' = [p \in Pages |-> 0]
    /\ status' = "open"
    /\ session' = session + 1
    /\ rt' = IF rt.stage \in {3, 5} THEN [rt EXCEPT !.stage = @ + 1] ELSE NoRt
    /\ Report("open", -1, "ok", <<>>, NoAddr)
    /\ UNCHANGED <<file, ops>>
    /\ PagerFrame

\* Pager.Write(address, rowBytes)
PagerWrite(address, rowBytes) ==
    /\ status = "open"
    /\ ops < MaxMutations
    /\ ops' = ops + 1
    /\ pageCache' = WriteBytes(
            checkPage(pageCache, cacheIndex, file, address.PageNum),
            address, rowBytes)
    /\ Touch(address.PageNum)
    /\ rt' = [stage |-> 1, addr |-> address, bytes |-> rowBytes]
    /\ file' = FileAfterWrite(file, pageCache', address)
    /\ Report("write", -1, "ok", <<>>, address)
    /\ UNCHANGED <<status, session>>
    /\ PagerFrame

\* Pager.Read(address)
PagerRead(address) ==
    /\ status = "open"
    /\ LET cache == checkPage(pageCache, cacheIndex, file, address.PageNum)
       IN  /\ pageCache' = cache
           /\ Report("read", -1, "ok", <<ReadBytes(cache, address)>>, address)
    /\ Touch(address.PageNum)
    /\ UNCHANGED <<file, status, session, ops, rt>>
    /\ PagerFrame

\* Pager.Flush(pageIdx, writeSize)
PagerFlush(pageIdx, writeSize) ==
    /\ status = "open"
    /\ ops < MaxMutations
    /\ ops' = ops + 1
    /\ file' = Flush(file, pageCache, pageIdx, writeSize)
    /\ rt' = IF /\ rt.stage = 1
                /\ pageIdx = rt.addr.PageNum
                /\ writeSize >= rt.addr.ByteOffset + rowSize
             THEN [rt EXCEPT !.stage = 2]
             ELSE IF rt.stage \in {1, 2} THEN rt ELSE NoRt
    /\ ReportGiven("flush", pageIdx, "ok", <<>>, NoAddr, <<writeSize>>)
    /\ UNCHANGED <<pageCache, cacheIndex, loads, status, session>>
    /\ PagerFrame

\* Pager.Close: the file handle closed, nothing flushed.
PagerClose ==
    /\ status = "open"
    /\ status' = "closed"
    /\ rt' = IF rt.stage = 2 THEN [rt EXCEPT !.stage = 3]
             ELSE IF rt.stage = 1 THEN [rt EXCEPT !.stage = 5]
             ELSE NoRt
    /\ Report("close", -1, "ok", <<>>, NoAddr)
    /\ file' = FileAfterClose(file, pageCache, cacheIndex)
    /\ UNCHANGED <<pageCache, cacheIndex, loads, session, ops>>
    /\ PagerFrame

PagerNext ==
    \/ NewPager
    \/ \E address \in PagerAddresses, row \in Rows : PagerWrite(address, Serialize(row))
    \/ \E address \in PagerAddresses : PagerRead(address)
    \/ \E pageIdx \in Pages, writeSize \in FlushSizes : PagerFlush(pageIdx, writeSize)
    \/ PagerClose

\* The Pager is tried on a blank file and on a file of one row and one byte.
PagerInit == Init /\ Len(file) \in {0, rowSize + 1}

PagerSpec == PagerInit /\ [][PagerNext]_vars

\* ------------------------------------------------------------ engine
\* Command texts are sequences of bytes (ASCII).
KwSelect == <<115, 101, 108, 101, 99, 116>>
KwInsert == <<105, 110, 115, 101, 114, 116>>
KwUpdate == <<117, 112, 100, 97, 116, 101>>
KwDelete == <<100, 101, 108, 101, 116, 101>>

\* strings.ToLower, on ASCII
ToLower(text) ==
    [i \in DOMAIN text |-> IF text[i] \in 65 .. 90 THEN text[i] + 32 ELSE text[i]]

\* strings.Split(text, " "): the pieces between the spaces, empty ones too;
\* a text with no space is its own single piece.
RECURSIVE Split(_)
Split(text) ==
    LET spaces == {i \in DOMAIN text : text[i] = 32}
    IN  IF spaces = {} THEN <<text>>
        ELSE LET i == CHOOSE j \in spaces : \A k \in spaces : j <= k
             IN  <<SubSeq(text, 1, i - 1)>> \o Split(SubSeq(text, i + 1, Len(text)))

\* strconv.Atoi: an optional sign and one decimal digit or more; anything
\* else is an error.
Digits(tok) == IF tok # <<>> /\ tok[1] \in {43, 45} THEN Tail(tok) ELSE tok
AtoiFails(tok) ==
    Digits(tok) = <<>> \/ \E i \in DOMAIN Digits(tok) : Digits(tok)[i] \notin 48 .. 57

RECURSIVE DecimalValue(_)
DecimalValue(ds) ==
    IF ds = <<>> THEN 0
    ELSE DecimalValue(SubSeq(ds, 1, Len(ds) - 1)) * 10 + (ds[Len(ds)] - 48)

Atoi(tok) ==
    IF tok[1] = 45 THEN -DecimalValue(Digits(tok)) ELSE DecimalValue(Digits(tok))

\* s.raw[0:6] == keyword; the slice needs six bytes.
isSelect(raw) == SubSeq(raw, 1, 6) = KwSelect
isInsert(raw) == SubSeq(raw, 1, 6) = KwInsert
isUpdate(raw) == SubSeq(raw, 1, 6) = KwUpdate
isDelete(raw) == SubSeq(raw, 1, 6) = KwDelete

\* The commands typed: the four keywords, inserts of the two rows of Rows
\* (in capitals too), an insert whose id is no number, inserts with too few
\* arguments, a text shorter than a keyword and an unknown word.
Words(ws) ==
    LET RECURSIVE Join(_)
        Join(k) == IF k = 1 THEN ws[1] ELSE Join(k - 1) \o <<32>> \o ws[k]
    IN  Join(Len(ws))

Commands ==
    { Words(<<KwSelect>>),
      Words(<<KwInsert, <<49>>, NameA, NameB>>),
      Words(<<<<73, 78, 83, 69, 82, 84>>, <<45, 50>>, <<66>>, <<65, 78>>>>),
      Words(<<KwInsert, <<120>>, NameA, NameB>>),
      Words(<<KwInsert, <<49>>, NameA>>),
      Words(<<KwInsert>>),
      Words(<<KwUpdate, <<49>>, NameB, NameA>>),
      Words(<<KwDelete, <<49>>>>),
      Words(<<<<115, 101, 108>>>>),
      Words(<<<<118, 97, 99, 117, 117, 109>>>>) }

\* NewEngine: the Engine's Table is opened on the file.
NewEngine == NewTable

\* What Engine.Prepare leaves unchanged when it returns.
PrepareFrame ==
    UNCHANGED <<file, pageCache, cacheIndex, numRows, session, hasCursor,
                rowIndex, openRows, openLen, initLen, closeRows, loads, ops,
                rt, iter>>

PrepareReturns(command, statement, r) ==
    /\ stmt' = statement
    /\ ReportGiven("prepare", -1, r, <<>>, NoAddr, command)
    /\ UNCHANGED <<status, log>>

\* components[k] with k beyond the slice: the process ends.
PreparePanics(command) ==
    /\ stmt' = NoStmt
    /\ status' = "panicked"
    /\ log' = SubSeq(log, 1, openRows)
    /\ ReportGiven("prepare", -1, "panic", <<>>, NoAddr, command)

\* Engine.Prepare(command).  The ids of Commands fit an int32, so int32(rowID)
\* is rowID.
Prepare(command) ==
    /\ status = "open"
    /\ LET lowerCommand == ToLower(command)
           components == Split(lowerCommand)
           statement == [raw |-> lowerCommand, rowToInsert |-> <<>>, err |-> FALSE]
       IN  IF Len(lowerCommand) < 6
           THEN PrepareReturns(command, [statement EXCEPT !.err = TRUE], "error")
           ELSE IF ~isInsert(lowerCommand)
           THEN PrepareReturns(command, statement, "ok")
           ELSE IF Len(components) < 2
           THEN PreparePanics(command)
           ELSE IF AtoiFails(components[2])
           THEN PrepareReturns(command, [statement EXCEPT !.err = TRUE], "error")
           ELSE IF Len(components) < 4
           THEN PreparePanics(command)
           ELSE PrepareReturns(command,
                    [statement EXCEPT !.rowToInsert =
                        <<NewRow(Atoi(components[2]), components[3], components[4])>>],
                    "ok")
    /\ PrepareFrame

\* Mutant: a delete prints the table, as a select does.
ExecKindDeleteScans(raw) ==
    IF isSelect(raw) \/ isDelete(raw) THEN "select"
    ELSE IF isInsert(raw) THEN "insert"
    ELSE IF isUpdate(raw) THEN "update"
    ELSE "other"

\* Engine.Execute's chain of if / else if.
ExecKind(raw) ==
    IF isSelect(raw) THEN "select"
    ELSE IF isInsert(raw) THEN "insert"
    ELSE IF isUpdate(raw) THEN "update"
    ELSE IF isDelete(raw) THEN "delete"
    ELSE "other"

\* Engine.Execute(statement), called as the command loop calls it: with the
\* statement Prepare returned, when Prepare returned no error.
Execute ==
    /\ status = "open"
    /\ stmt # NoStmt
    /\ ~stmt.err
    /\ LET kind == ExecKind(stmt.raw)
       IN  IF kind = "select" THEN ScanTable("execute")
           ELSE IF kind = "insert" THEN AppendRow("execute", stmt.rowToInsert[1])
           ELSE /\ Report("execute", -1, "ok", <<>>, NoAddr)
                /\ UNCHANGED <<file, pageCache, cacheIndex, numRows, status,
                               session, hasCursor, rowIndex, log, openRows,
                               openLen, initLen, closeRows, loads, ops, rt, iter>>
    /\ UNCHANGED stmt

EngineNext ==
    \/ NewEngine
    \/ \E command \in Commands : Prepare(command)
    \/ Execute

EngineSpec == Init /\ [][EngineNext]_vars

\* ------------------------------------------------------------ the codec on its own
\* Longest name or email text a codec call is given.
MaxTextLen == 3

\* The bytes the texts are made of: 'a' and the two bytes of UTF-8 "é", which
\* also occur alone and in the wrong order (ill-formed UTF-8).
CodecBytes == {97, 195, 169}
CodecTexts == UNION {[1 .. n -> CodecBytes] : n \in 0 .. MaxTextLen}
CodecIds == {0, 1, -2, 258, MaxInt32, (-MaxInt32) - 1}
CodecInputs ==
    {<<id, name, email>> : id \in CodecIds, name \in CodecTexts, email \in CodecTexts}

\* NewRow(id, name, email) on the given arguments.
CodecNewRow ==
    /\ op = "init"
    /\ ReportGiven("newrow", -1, "ok", <<NewRow(given[1], given[2], given[3])>>,
                   NoAddr, given)
    /\ UNCHANGED <<file, pageCache, cacheIndex, numRows, status, session,
                   hasCursor, rowIndex, log, openRows, openLen, initLen,
                   closeRows, loads, ops, rt, stmt, iter>>

\* row.Serialize(): the bytes are kept in rt.bytes.
CodecSerialize ==
    /\ op = "newrow"
    /\ rt' = [NoRt EXCEPT !.bytes = Serialize(fetched[1])]
    /\ ReportGiven("serialize", -1, "ok", fetched, NoAddr, given)
    /\ UNCHANGED <<file, pageCache, cacheIndex, numRows, status, session,
                   hasCursor, rowIndex, log, openRows, openLen, initLen,
                   closeRows, loads, ops, stmt, iter>>

\* DeserializeRow of the serialized bytes.
CodecDeserialize ==
    /\ op = "serialize"
    /\ ReportGiven("deserialize", -1, "ok", <<DeserializeRow(rt.bytes)>>,
                   NoAddr, given)
    /\ UNCHANGED <<file, pageCache, cacheIndex, numRows, status, session,
                   hasCursor, rowIndex, log, openRows, openLen, initLen,
                   closeRows, loads, ops, rt, stmt, iter>>

CodecNext == CodecNewRow \/ CodecSerialize \/ CodecDeserialize
CodecInit == Start({<<>>}, CodecInputs)
CodecSpec == CodecInit /\ [][CodecNext]_vars

\* ------------------------------------------------------------ claims
\* The rowSize bytes the file holds at an address, zero past its end.
FileBytes(f, address) ==
    [i \in 1 .. rowSize |->
        LET at == address.PageNum * actualPageSize + address.ByteOffset + i
        IN  IF at <= Len(f) THEN f[at] ELSE 0]

\* C1: on a file that was blank before the first session, in every session,
\* fetching a row number below the row count returns the row appended under
\* that number, whichever pages the sessions in between read or wrote.
C1_StoredRowsSurvive ==
    (initLen = 0 /\ op = "fetch" /\ arg < numRows) => fetched = <<log[arg + 1]>>

\* C2: a Table reopened after Table.Close has the row count the Table had when
\* it was closed (the count at open plus the rows appended), and a blank file
\* opens with row count 0.
C2_RowCountRecovery ==
    op = "open" =>
        /\ closeRows >= 0 => numRows = closeRows
        /\ Len(file) = 0 => numRows = 0

C2_Witness ==
    /\ op = "open"
    /\ session = 2
    /\ initLen = rowSize
    /\ closeRows = rowsPerPage + 1
    /\ numRows = closeRows

\* C3: an append at row count rowsPerPage * tableMaxPages returns the
\* CapacityExceeded error, the table stays usable with its row count and pages
\* unchanged, and an append succeeds only below that row count.
C3_CapacityFence ==
    op = "append" =>
        /\ arg >= tableMaxRows =>
                res = "CapacityExceeded" /\ status = "open" /\ numRows = arg
        /\ res = "ok" => arg < tableMaxRows

\* C4: a table opened on a blank file, filled, closed and reopened returns
\* from fetch(address_of(i)) the i-th appended row, for every i below the row
\* count it was reopened with.
C4_PageBoundaryCrossing ==
    (initLen = 0 /\ session = 2 /\ op = "fetch" /\ arg < openRows)
        => fetched = <<log[arg + 1]>>

C4_Witness ==
    /\ initLen = 0
    /\ session = 2
    /\ openRows > rowsPerPage
    /\ op = "fetch"
    /\ arg = rowsPerPage
    /\ addr = [PageNum |-> 1, ByteOffset |-> 0]
    /\ fetched = <<log[arg + 1]>>
    /\ log[1] # log[arg + 1]

\* C5: after Pager.Write(a, b), a Pager.Flush of a's page covering a's row,
\* Pager.Close and NewPager on the same file, Pager.Read(a) returns b.
C5_PagerRoundTrip ==
    (rt.stage = 4 /\ op = "read" /\ addr = rt.addr) => fetched = <<rt.bytes>>

C5_Witness ==
    /\ rt.stage = 4
    /\ op = "read"
    /\ addr = rt.addr
    /\ addr = [PageNum |-> 1, ByteOffset |-> rowSize]
    /\ fetched = <<rt.bytes>>
    /\ initLen = 0

\* C6: the file's bytes and length change in no Pager operation but
\* Pager.Flush, and what a new Pager reads of a page is what the file held
\* when the previous Pager was closed, not what that Pager had in memory.
C6_FileChangesOnlyInFlush ==
    [][/\ file' # file => op' = "flush"
       /\ (op' = "read" /\ addr'.PageNum \notin cacheIndex)
            => fetched' = <<FileBytes(file, addr')>>]_vars

\* A write was made and never flushed, the Pager closed and a new one opened:
\* the read of that address returns the file's bytes, not the written ones.
C6_Witness ==
    /\ rt.stage = 6
    /\ op = "read"
    /\ addr = rt.addr
    /\ Len(file) = initLen
    /\ fetched = <<FileBytes(file, addr)>>
    /\ fetched # <<rt.bytes>>

\* C7: a page is loaded from the file at most once in a Pager's lifetime, a
\* loaded page stays loaded, and a read or a write of a loaded page works on
\* the slot as it is in memory: the read returns the slot's bytes and changes
\* nothing in the cache, the write changes only the bytes it is given.
C7_LoadOnce ==
    /\ [](\A p \in Pages : loads[p] <= 1 /\ (loads[p] = 1 <=> p \in cacheIndex))
    /\ [][/\ session' = session => cacheIndex \subseteq cacheIndex'
          /\ (op' = "read" /\ addr'.PageNum \in cacheIndex)
                => /\ pageCache' = pageCache
                   /\ fetched' = <<ReadBytes(pageCache, addr')>>
          /\ (op' = "write" /\ addr'.PageNum \in cacheIndex)
                => pageCache' = WriteBytes(pageCache, addr', rt'.bytes)]_vars

\* A read served from a loaded slot whose bytes differ from the file's.
C7_Witness ==
    /\ op = "read"
    /\ loads[addr.PageNum] = 1
    /\ fetched = <<ReadBytes(pageCache, addr)>>
    /\ fetched # <<FileBytes(file, addr)>>
    /\ ops = 2

\* C8: within a session the row count never decreases and changes only in a
\* successful Table.Append, by exactly 1, the appended row's bytes being then
\* at address_of(the row count before); every other operation leaves it as is.
C8_RowCountMoves ==
    [][session' = session =>
        \/ numRows' = numRows
        \/ /\ op' = "append"
           /\ res' = "ok"
           /\ numRows' = numRows + 1
           /\ addr' = FetchAddress(numRows)
           /\ addr'.PageNum \in cacheIndex'
           /\ ReadBytes(pageCache', FetchAddress(numRows))
                = Serialize(log'[numRows + 1])]_vars

C8_Witness ==
    /\ op = "append"
    /\ res = "ok"
    /\ hasCursor
    /\ rowIndex = numRows - 1
    /\ numRows = rowsPerPage + 1
    /\ addr = [PageNum |-> 1, ByteOffset |-> 0]

\* C9 as claimed: after Table.Close the file's length is the row count times
\* rowSize, whatever the file held when the table was opened.
C9_ExactLength ==
    (op = "close" /\ res = "ok") => Len(file) = numRows * rowSize

\* C9 amended: Table.Close never shortens the file: the length after it is
\* the larger of the length at open and the row count times rowSize, which is
\* the row count times rowSize when the length at open was a multiple of
\* rowSize or a row was appended in the session.
C9_LengthAfterClose ==
    op = "close" =>
        /\ Len(file) = Max(openLen, numRows * rowSize)
        /\ (openLen % rowSize = 0 \/ numRows > openRows)
                => Len(file) = numRows * rowSize

C9_Witness ==
    /\ op = "close"
    /\ res = "ok"
    /\ openLen % rowSize # 0
    /\ numRows > openRows
    /\ numRows % rowsPerPage # 0
    /\ Len(file) = numRows * rowSize

\* C10: address_of(n) is the page and the byte offset of the n-th row slot:
\* the offset is a whole number of rows inside one page, page and offset
\* count up to n rows, address_of(0) = (0, 0) and address_of(rowsPerPage) =
\* (1, 0), whatever the row count is; and computing it changes no state.
C10_AddressTranslation ==
    /\ [](op = "address" =>
            /\ addr.ByteOffset >= 0
            /\ addr.ByteOffset % rowSize = 0
            /\ addr.ByteOffset + rowSize <= actualPageSize
            /\ addr.PageNum * rowsPerPage + addr.ByteOffset \div rowSize = arg
            /\ arg = 0 => addr = [PageNum |-> 0, ByteOffset |-> 0]
            /\ arg = rowsPerPage => addr = [PageNum |-> 1, ByteOffset |-> 0])
    /\ [][op' = "address" =>
            UNCHANGED <<file, pageCache, cacheIndex, numRows, status, session,
                        hasCursor, rowIndex, loads>>]_vars

C10_Witness ==
    /\ op = "address"
    /\ arg = rowsPerPage
    /\ numRows < arg
    /\ addr = [PageNum |-> 1, ByteOffset |-> 0]

\* What the claims say a text field holds: the text's first bytes up to the
\* field's size, then zeros.
HoldsPrefix(field, text, size) ==
    /\ Len(field) = size
    /\ \A i \in 1 .. size :
            field[i] = IF i <= Min(Len(text), size) THEN text[i] ELSE 0

\* C11: for any id and any two texts, Serialize yields exactly rowSize bytes,
\* and the row DeserializeRow makes of the bytes of NewRow(id, name, email) has
\* the same id and in each text field the first N bytes of the text (N the
\* smaller of the text's length and the field's size) followed by zeros.
C11_CodecRoundTrip ==
    /\ op = "serialize" => Len(rt.bytes) = rowSize
    /\ op = "deserialize" =>
            /\ fetched[1].ID = given[1]
            /\ HoldsPrefix(fetched[1].Username, given[2], usernameSize)
            /\ HoldsPrefix(fetched[1].Email, given[3], emailSize)

\* C12: Cursor.Advance moves the position by exactly 1 and returns true
\* exactly when the new position p has 0 <= p < numRows; Cursor.BeyondTable
\* returns true exactly when p < 0 or p >= numRows and leaves the position
\* as it is.
C12_CursorBounds ==
    [][/\ op' = "advance" =>
            /\ rowIndex' = rowIndex + 1
            /\ res' \in {"true", "false"}
            /\ res' = "true" <=> (0 <= rowIndex' /\ rowIndex' < numRows')
       /\ op' = "beyond" =>
            /\ rowIndex' = rowIndex
            /\ res' \in {"true", "false"}
            /\ res' = "true" <=> (rowIndex' < 0 \/ rowIndex' >= numRows')]_vars

\* An Advance off the last row of a table of two rows or more.
C12_Witness ==
    /\ op = "advance"
    /\ res = "false"
    /\ arg = numRows - 1
    /\ rowIndex = numRows
    /\ numRows >= rowsPerPage

\* C13: in the session that opened a blank file, Table.ToString lists the
\* rows appended so far, each once, in the order they were appended, and
\* nothing else; the count it prints is their number.
C13_SequentialScan ==
    (initLen = 0 /\ session = 1 /\ op = "scan") =>
        /\ fetched = log
        /\ Len(fetched) = numRows
        /\ arg = numRows

C13_Witness ==
    /\ initLen = 0
    /\ session = 1
    /\ op = "scan"
    /\ numRows = rowsPerPage + 1
    /\ fetched = log
    /\ log[1] # log[2]
    /\ log[1] = log[numRows]

\* C14: executing an update or a delete changes nothing of the storage: the
\* row count, every slot's bytes, which slots are loaded and the file stay
\* as they are; executing any statement changes the row count only when the
\* statement is an insert, by one, the statement's row being then at
\* address_of(the row count before) and the other slots as they were; and no
\* execution writes the file.
C14_ExecuteFrame ==
    [][op' = "execute" =>
        /\ (isUpdate(stmt.raw) \/ isDelete(stmt.raw)) =>
                /\ res' = "ok"
                /\ UNCHANGED <<numRows, pageCache, cacheIndex, file, status>>
        /\ numRows' # numRows =>
                /\ isInsert(stmt.raw)
                /\ numRows' = numRows + 1
                /\ ReadBytes(pageCache', FetchAddress(numRows))
                        = Serialize(stmt.rowToInsert[1])
                /\ \A p \in Pages \ {FetchAddress(numRows).PageNum} :
                        pageCache'[p] = pageCache[p]
        /\ file' = file]_vars

\* A delete executed on a table that found a row in its file and has loaded
\* no page.
C14_Witness ==
    /\ op = "execute"
    /\ res = "ok"
    /\ isDelete(stmt.raw)
    /\ numRows = 1
    /\ openLen = rowSize + 1
    /\ cacheIndex = {}
    /\ pageCache = EmptyCache

\* C20: Engine.Prepare returns a Statement or an error for every command and
\* never ends the process; a command shorter than a keyword, an insert whose
\* id is no integer and an insert with fewer than three arguments get an
\* error; a Statement returned without error for an insert carries a Row; and
\* Prepare changes nothing of the table.
C20_PrepareValidates ==
    /\ [](op = "prepare" =>
            LET lower == ToLower(given)
            IN  /\ res \in {"ok", "error"}
                /\ status = "open"
                /\ Len(given) < 6 => res = "error"
                /\ (Len(given) >= 6 /\ isInsert(lower)) =>
                        /\ Len(Split(lower)) < 4 => res = "error"
                        /\ (Len(Split(lower)) >= 2 /\ AtoiFails(Split(lower)[2]))
                                => res = "error"
                        /\ res = "ok" => Len(stmt.rowToInsert) = 1)
    /\ [][op' = "prepare" =>
            UNCHANGED <<file, pageCache, cacheIndex, numRows, status>>]_vars

\* C15: NewTable sets the row count to the whole rows the file's length
\* holds (numRows * rowSize <= length < (numRows + 1) * rowSize), so a partial
\* row at the end is not counted; the session's first append is written at
\* address_of(that count), where the partial row's bytes were.
C15_OpenRowCount ==
    /\ op = "open" =>
            /\ numRows * rowSize <= Len(file)
            /\ Len(file) < (numRows + 1) * rowSize
    /\ (op = "append" /\ res = "ok" /\ arg = openRows) =>
            /\ arg * rowSize <= openLen
            /\ openLen < (arg + 1) * rowSize
            /\ addr = FetchAddress(arg)
            /\ addr.PageNum * actualPageSize + addr.ByteOffset = arg * rowSize
            /\ ReadBytes(pageCache, addr) = Serialize(log[arg + 1])

\* A file of one row and one byte: the append goes over the byte.
C15_Witness ==
    /\ op = "append"
    /\ res = "ok"
    /\ arg = openRows
    /\ openLen = rowSize + 1
    /\ arg = 1
    /\ addr = [PageNum |-> 0, ByteOffset |-> rowSize]
    /\ ReadBytes(pageCache, addr) = Serialize(log[2])

\* C16: Pager.Flush(pageIdx, writeSize) makes the file's bytes at
\* [pageIdx * actualPageSize, pageIdx * actualPageSize + writeSize) the first
\* writeSize bytes of the page's slot, changes no byte the file had outside
\* that range and no slot, and with writeSize = 0 leaves the file as it is.
\* The file grows to the range's end when it was shorter, and the bytes
\* between its old end and the range's start are then zero.
C16_FlushFrame ==
    [][op' = "flush" =>
        LET n == given'[1]
            off == arg' * actualPageSize
        IN  /\ pageCache' = pageCache
            /\ cacheIndex' = cacheIndex
            /\ n = 0 => file' = file
            /\ n > 0 => Len(file') = Max(Len(file), off + n)
            /\ \A i \in 1 .. n : file'[off + i] = pageCache[arg'][i]
            /\ \A i \in 1 .. Len(file) :
                    (i <= off \/ i > off + n) => file'[i] = file[i]
            /\ \A i \in (Len(file) + 1) .. Len(file') :
                    (i <= off \/ i > off + n) => file'[i] = 0]_vars

\* A flush of page 1 past the end of a file of one row and one byte, after a
\* write into the page: the file's bytes are kept, the gap is zero.
C16_Witness ==
    /\ op = "flush"
    /\ arg = 1
    /\ given = <<rowSize + 1>>
    /\ initLen = rowSize + 1
    /\ Len(file) = actualPageSize + rowSize + 1
    /\ file[rowSize + 1] = 9
    /\ file[actualPageSize] = 0
    /\ file[actualPageSize + 1] = pageCache[1][1]
    /\ pageCache[1] # Zeros(actualPageSize)

\* The bytes of page p in the file, zero at and past the file's end.
PageOfFile(f, p) ==
    [i \in 1 .. actualPageSize |->
        IF p * actualPageSize + i <= Len(f) THEN f[p * actualPageSize + i] ELSE 0]

\* C17: the first reference to a page in a Pager's lifetime, by Pager.Read or
\* by Pager.Write, makes the page's slot the file's bytes of that page, zero
\* at every position at or past the file's end; a write's bytes are put into
\* the slot after that.  No other slot changes, and a read of a page wholly
\* past the file's end succeeds and returns zeros.
C17_LoadPolicy ==
    [][(op' \in {"read", "write"} /\ addr'.PageNum \notin cacheIndex) =>
        LET p == addr'.PageNum
            off == addr'.ByteOffset
        IN  /\ p \in cacheIndex'
            /\ \A q \in Pages \ {p} : pageCache'[q] = pageCache[q]
            /\ op' = "read" =>
                    /\ res' = "ok"
                    /\ pageCache'[p] = PageOfFile(file, p)
                    /\ p * actualPageSize >= Len(file)
                            => fetched' = <<Zeros(rowSize)>>
            /\ op' = "write" =>
                    \A i \in 1 .. actualPageSize :
                        pageCache'[p][i] =
                            IF i > off /\ i <= off + rowSize
                            THEN rt'.bytes[i - off]
                            ELSE PageOfFile(file, p)[i]]_vars

\* A first read of page 1, wholly past the end of the file, after a first
\* read of page 0, which the file fills up to its end only.
C17_Witness ==
    /\ op = "read"
    /\ ops = 0
    /\ session = 1
    /\ Len(file) = rowSize + 1
    /\ cacheIndex = {0, 1}
    /\ addr.PageNum = 1
    /\ fetched = <<Zeros(rowSize)>>
    /\ pageCache[0][rowSize + 1] = 9
    /\ pageCache[0][rowSize + 2] = 0

\* C18: a Cursor created in iterator mode starts at -1; on a table of K rows
\* with no append since, its j-th Advance returns true exactly when j <= K, so
\* true K times in a row and false from the (K+1)-th on; its address after
\* the j-th Advance is address_of(j - 1); and no operation on a Cursor lowers
\* its position.
C18_ForwardIteration ==
    /\ [](iter >= 0 =>
            /\ hasCursor
            /\ rowIndex = iter - 1
            /\ (op = "advance" => (res = "true" <=> iter <= numRows))
            /\ (op = "getaddress" => addr = FetchAddress(iter - 1)))
    /\ [][(hasCursor /\ hasCursor' /\ op' # "cursor") => rowIndex' >= rowIndex]_vars

\* The first Advance that returns false, on a table of more than one page.
C18_Witness ==
    /\ op = "advance"
    /\ res = "false"
    /\ iter = numRows + 1
    /\ numRows = rowsPerPage + 1
    /\ rowIndex = numRows

\* C19: a Table.Append leaves a Cursor and its position as they are; a
\* Cursor whose position is the row count is beyond the table before the
\* append and not beyond it after, without being built anew, and its address
\* is then the address the row was appended at.
C19_LiveRowCount ==
    [][(op' = "append" /\ res' = "ok" /\ hasCursor) =>
        /\ hasCursor'
        /\ rowIndex' = rowIndex
        /\ rowIndex = numRows =>
                /\ BeyondTable(rowIndex, numRows)
                /\ ~BeyondTable(rowIndex', numRows')
                /\ FetchAddress(rowIndex') = addr'
                /\ ReadBytes(pageCache', FetchAddress(rowIndex'))
                        = Serialize(log'[rowIndex' + 1])]_vars

\* An append to a table of one row with a Cursor at position 1.
C19_Witness ==
    /\ op = "append"
    /\ res = "ok"
    /\ hasCursor
    /\ arg = 1
    /\ rowIndex = arg
    /\ numRows = arg + 1
    /\ addr = FetchAddress(rowIndex)
    /\ ~BeyondTable(rowIndex, numRows)

\* The bytes a fetch of row number j would return in a state: the slot's
\* bytes when the row's page is loaded, the file's otherwise.
RowView(cache, index, f, j) ==
    IF FetchAddress(j).PageNum \in index
    THEN ReadBytes(cache, FetchAddress(j))
    ELSE FileBytes(f, FetchAddress(j))

\* C21: within a session, a fetch of a row number appended in the session
\* returns the row appended under it, whatever was done since and with
\* nothing flushed; and a successful append changes the bytes of its own row
\* slot only: every other row number reads as before, every byte of the
\* appended row's page outside the slot is as a load of the page leaves it,
\* and no other page's slot changes.
C21_ReadYourWrites ==
    /\ []((op = "fetch" /\ arg >= openRows /\ arg < numRows)
            => (fetched = <<log[arg + 1]>> /\ Len(file) = openLen))
    /\ [][(op' = "append" /\ res' = "ok") =>
            /\ \A j \in 0 .. (tableMaxRows - 1) :
                    j # numRows =>
                        RowView(pageCache', cacheIndex', file', j)
                            = RowView(pageCache, cacheIndex, file, j)
            /\ \A p \in Pages \ {addr'.PageNum} : pageCache'[p] = pageCache[p]
            /\ \A i \in 1 .. actualPageSize :
                    (i <= addr'.ByteOffset \/ i > addr'.ByteOffset + rowSize) =>
                        pageCache'[addr'.PageNum][i] =
                            IF addr'.PageNum \in cacheIndex
                            THEN pageCache[addr'.PageNum][i]
                            ELSE PageOfFile(file, addr'.PageNum)[i]]_vars

\* A row appended in a session that found a row in the file is fetched after
\* two more appends, one of them into the next page, with the file untouched.
C21_Witness ==
    /\ op = "fetch"
    /\ openRows = 1
    /\ arg = 1
    /\ numRows = rowsPerPage + 1
    /\ fetched = <<log[arg + 1]>>
    /\ log[arg + 1] # log[arg + 2]
    /\ Len(file) = openLen

\* C22: Table.Close completes at every row count up to tableMaxRows: every
\* page index it gives Pager.Flush is below tableMaxPages, it does not panic,
\* and the file handle is closed when it returns.
C22_CloseCompletes ==
    op = "close" =>
        /\ numRows <= tableMaxRows => ClosePageCount(numRows) \in Pages
        /\ res = "ok"
        /\ status = "closed"

\* C23: for every row number n below tableMaxRows, address_of(n) names a
\* page below tableMaxPages and an offset whose rowSize bytes end inside the
\* page, the position page * actualPageSize + offset is n * rowSize, and no
\* other row number below tableMaxRows has an address whose bytes overlap.
C23_DisjointSlots ==
    (op = "address" /\ arg < tableMaxRows) =>
        /\ addr.PageNum \in Pages
        /\ addr.ByteOffset >= 0
        /\ addr.ByteOffset + rowSize <= actualPageSize
        /\ addr.PageNum * actualPageSize + addr.ByteOffset = arg * rowSize
        /\ \A j \in 0 .. (tableMaxRows - 1) :
                (j # arg /\ FetchAddress(j).PageNum = addr.PageNum) =>
                    \/ FetchAddress(j).ByteOffset + rowSize <= addr.ByteOffset
                    \/ addr.ByteOffset + rowSize <= FetchAddress(j).ByteOffset

\* The last row slot of the table: it ends where the last page ends.
C23_Witness ==
    /\ op = "address"
    /\ arg = tableMaxRows - 1
    /\ addr = [PageNum |-> tableMaxPages - 1,
               ByteOffset |-> actualPageSize - rowSize]

====
